---- MODULE Spec2Model ----
(***************************************************************************)
(* v6prac (src/src/main.rs): a keyboard sampler.  main runs customize to   *)
(* build the tracked-key list, init_and_run builds GlobalState and the     *)
(* host event loop then calls maybe_poll on every MainEventsCleared and    *)
(* render on every RedrawRequested.                                        *)
(*                                                                         *)
(* Times are nanoseconds, as in the source (Duration::as_nanos).  An       *)
(* Instant is the number of nanoseconds since init_and_run read            *)
(* Instant::now() for last_poll_attempt.                                   *)
(***************************************************************************)
EXTENDS Integers, Sequences, FiniteSets

\* ---------------------------------------------------------------- bounds
\* Number of MainEventsCleared events delivered in a run.
MaxTicks == 4

\* Last instant of the clock in the runs of SpecLive, which bound the clock
\* in place of the number of ticks: 12 ms.
MaxClock == 12000000

\* Capacity of poll_queue.  The source sets 20 (main.rs:62); the model runs
\* the same code with a smaller capacity so that eviction happens within
\* MaxTicks ticks.
MAX_QUEUE_SIZE == 3

\* Nanoseconds the monotonic clock may advance between two reads of
\* Instant::now(): 0 (two reads of one instant), an odd number of nanoseconds
\* just under 1 ms, 10 ms, 20 ms, 30 ms.
Steps == {0, 999999, 10000000, 20000000, 30000000}

\* Key codes the device can report.  "A" has a display character, "F1" has
\* none, "Backspace" ends customization.
Keycodes == {"A", "F1", "Backspace"}

\* Key sets the device reports while the event loop runs.  "A" is tracked or
\* not, according to what customize recorded.
RunPolls == SUBSET {"A"}

\* ------------------------------------------------------ program constants
NANOS_PER_FRAME == 34000000
MAX_POLLS_PER_FRAME == 20
\* u128::MAX, the value get_pressed_keys puts in dt_before and dt_after.
\* It stands for 2^128 - 1: the largest integer the checker represents, so
\* that any arithmetic on it is reported as an overflow.
U128_MAX == 2147483647
\* f64::INFINITY, the quotient of a positive count by 0.0 seconds.
F64_INFINITY == 2147483647
\* Window height requested by init_and_run; the canvas height in render.
WindowHeight == 800
NANOS_PER_SEC == 1000000000

None == "None"

VARIABLES
    pc,                       \* main's position: wait_release, customize, running
    keys,                     \* customize: keys recorded so far
    fail_keys,                \* customize: unsupported keys already reported
    actions,                  \* GlobalState.actions
    limit_fps,                \* GlobalState.limit_fps
    last_fps,                 \* GlobalState.last_fps
    last_dt,                  \* GlobalState.last_dt
    last_poll_attempt,        \* GlobalState.last_poll_attempt
    attempts_since_last_poll, \* GlobalState.attempts_since_last_poll
    poll_queue,               \* GlobalState.poll_queue, front first
    clock,                    \* the monotonic clock behind Instant::now()
    redraw_pending,           \* window.request_redraw() called, not yet served
    drawn,                    \* rows written by the last draw_past_inputs
    ticks,                    \* number of maybe_poll calls so far
    samples,                  \* key vectors returned by get_pressed_keys, in order
    recorded,                 \* every RecordedPoll handed to record_poll, in order
    redraw_requests,          \* number of window.request_redraw() calls
    attempt_log               \* one entry per call of poll: the instant `now` and
                              \* the index in `recorded` of the Edge it recorded, or 0

vars == <<pc, keys, fail_keys, actions, limit_fps, last_fps, last_dt,
          last_poll_attempt, attempts_since_last_poll, poll_queue, clock,
          redraw_pending, drawn, ticks, samples, recorded, redraw_requests,
          attempt_log>>

\* ------------------------------------------------------------ helpers
Contains(s, x) == \E i \in 1..Len(s) : s[i] = x

\* device_query reports the pressed keys as a Vec in a fixed device order.
DeviceOrder == <<"A", "F1", "Backspace">>

get_keys(pressed) == SelectSeq(DeviceOrder, LAMBDA k : k \in pressed)

keycode_to_char(k) == IF k = "A" THEN "A" ELSE None

\* ------------------------------------------------------------ customize
\* One pass of `for k in poll` over the keys of one get_keys() result,
\* threading (keys, fail_keys, done).
RECURSIVE customize_scan(_, _)
customize_scan(p, st) ==
    IF p = <<>> THEN st
    ELSE LET k == Head(p)
             st2 == IF k = "Backspace"
                      THEN [st EXCEPT !.done = TRUE]
                    ELSE IF ~Contains(st.keys, k)
                      THEN IF keycode_to_char(k) = None
                             THEN IF ~Contains(st.fail_keys, k)
                                    THEN [st EXCEPT !.fail_keys = Append(@, k)]
                                    ELSE st
                             ELSE [st EXCEPT !.keys = Append(@, k)]
                    ELSE st
         IN customize_scan(Tail(p), st2)

create_actions(keys_to_track) ==
    [i \in 1..Len(keys_to_track) |->
        [key |-> keys_to_track[i],
         display_char |-> keycode_to_char(keys_to_track[i])]]

\* ------------------------------------------------------------ sampling
\* The gate with its comparison turned round.
enough_time_passed_reversed(limit, dt) ==
    IF limit THEN dt * MAX_POLLS_PER_FRAME <= NANOS_PER_FRAME ELSE TRUE

enough_time_passed(limit, dt) ==
    IF limit THEN NANOS_PER_FRAME <= dt * MAX_POLLS_PER_FRAME ELSE TRUE

get_pressed_keys(acts, now, pressed) ==
    [timestamp |-> now,
     keys      |-> [i \in 1..Len(acts) |-> Contains(get_keys(pressed), acts[i].key)],
     dt_before |-> U128_MAX,
     dt_after  |-> U128_MAX]

\* Every sample taken as changed.
inputs_changed_always(this_poll, last_poll) == TRUE

\* eq in place of ne.
inputs_changed_eq(this_poll, last_poll) == this_poll.keys = last_poll.keys

inputs_changed(this_poll, last_poll) == this_poll.keys # last_poll.keys

\* (attempts / delta.as_secs_f64()).round(): the quotient rounded to the
\* nearest integer, halves away from zero; a zero delta gives +infinity
\* (attempts is at least 1 when record_poll runs).
fps_round(attempts, delta) ==
    IF delta = 0 THEN F64_INFINITY
    ELSE LET q == NANOS_PER_SEC \div delta
             r == NANOS_PER_SEC % delta
             i == (attempts * r) \div delta
             s == (attempts * r) % delta
         IN attempts * q + i + (IF 2 * s >= delta THEN 1 ELSE 0)

\* The eviction test with > in place of >=.
evict_if_full_late(q) ==
    IF Len(q) > MAX_QUEUE_SIZE THEN SubSeq(q, 1, Len(q) - 1) ELSE q

\* if poll_queue.len() >= MAX_QUEUE_SIZE { poll_queue.pop_back(); }
evict_if_full(q) ==
    IF Len(q) >= MAX_QUEUE_SIZE THEN SubSeq(q, 1, Len(q) - 1) ELSE q

\* The back-fill left out.
back_fill_skipped(q, dt) == q

\* if let Some(prev_poll) = poll_queue.front_mut() { prev_poll.dt_after = last_dt; }
back_fill(q, dt) ==
    IF q # <<>> THEN [q EXCEPT ![1].dt_after = dt] ELSE q

\* push_back in place of push_front.
push_back(q, p) == q \o <<p>>

\* poll_queue.push_front(poll)
push_front(q, p) == <<p>> \o q

\* The back-fill done after push_front: it lands on the new Edge.
record_poll_fill_after_push(now, p, st) ==
    LET fps == IF st.poll_queue # <<>>
                 THEN fps_round(st.attempts_since_last_poll,
                                now - Head(st.poll_queue).timestamp)
                 ELSE 0
        q1 == evict_if_full(st.poll_queue)
        p2 == [p EXCEPT !.dt_before = st.last_dt]
    IN [st EXCEPT !.last_fps = fps,
                  !.attempts_since_last_poll = 0,
                  !.poll_queue = back_fill(push_front(q1, p2), st.last_dt),
                  !.recorded = Append(@, p2),
                  !.attempt_log = [@ EXCEPT ![Len(@)].edge = Len(st.recorded) + 1]]

\* attempts_since_last_poll not reset.
record_poll_no_reset(now, p, st) ==
    LET fps == IF st.poll_queue # <<>>
                 THEN fps_round(st.attempts_since_last_poll,
                                now - Head(st.poll_queue).timestamp)
                 ELSE 0
        q1 == evict_if_full(st.poll_queue)
        p2 == [p EXCEPT !.dt_before = st.last_dt]
        q2 == back_fill(q1, st.last_dt)
    IN [st EXCEPT !.last_fps = fps,
                  !.poll_queue = push_front(q2, p2),
                  !.recorded = Append(@, p2),
                  !.attempt_log = [@ EXCEPT ![Len(@)].edge = Len(st.recorded) + 1]]

\* record_poll on the fields it reads and writes.
record_poll(now, p, st) ==
    LET fps == IF st.poll_queue # <<>>
                 THEN fps_round(st.attempts_since_last_poll,
                                now - Head(st.poll_queue).timestamp)
                 ELSE 0
        q1 == evict_if_full(st.poll_queue)
        p2 == [p EXCEPT !.dt_before = st.last_dt]
        q2 == back_fill(q1, st.last_dt)
    IN [st EXCEPT !.last_fps = fps,
                  !.attempts_since_last_poll = 0,
                  !.poll_queue = push_front(q2, p2),
                  !.recorded = Append(@, p2),
                  !.attempt_log = [@ EXCEPT ![Len(@)].edge = Len(st.recorded) + 1]]

\* request_redraw() moved out of the if: called on every attempt.
poll_redraw_always(now, st, pressed) ==
    LET p  == get_pressed_keys(st.actions, now, pressed)
        s1 == [st EXCEPT !.samples = Append(@, p.keys),
                         !.attempt_log = Append(@, [now |-> now, edge |-> 0]),
                         !.redraw_pending = TRUE,
                         !.redraw_requests = @ + 1]
    IN IF s1.poll_queue = <<>> \/ inputs_changed(p, Head(s1.poll_queue))
         THEN record_poll(now, p, s1)
         ELSE s1

\* The sample compared with the back of the queue in place of the front.
poll_compare_back(now, st, pressed) ==
    LET p  == get_pressed_keys(st.actions, now, pressed)
        s1 == [st EXCEPT !.samples = Append(@, p.keys),
                         !.attempt_log = Append(@, [now |-> now, edge |-> 0])]
    IN IF s1.poll_queue = <<>>
          \/ inputs_changed(p, s1.poll_queue[Len(s1.poll_queue)])
         THEN [record_poll(now, p, s1) EXCEPT !.redraw_pending = TRUE,
                                               !.redraw_requests = @ + 1]
         ELSE s1

\* poll: query the device, record the sample when it is the first one or
\* differs from the front of the queue, and then request a redraw.
poll(now, st, pressed) ==
    LET p  == get_pressed_keys(st.actions, now, pressed)
        s1 == [st EXCEPT !.samples = Append(@, p.keys),
                         !.attempt_log = Append(@, [now |-> now, edge |-> 0])]
    IN IF s1.poll_queue = <<>> \/ inputs_changed(p, Head(s1.poll_queue))
         THEN [record_poll(now, p, s1) EXCEPT !.redraw_pending = TRUE,
                                               !.redraw_requests = @ + 1]
         ELSE s1

\* last_poll_attempt updated on a closed gate too.
maybe_poll_update_always(now, st, pressed) ==
    LET dt == now - st.last_poll_attempt
    IN IF enough_time_passed(st.limit_fps, dt)
         THEN [poll(now,
                    [st EXCEPT !.attempts_since_last_poll = @ + 1,
                               !.last_dt = dt],
                    pressed)
               EXCEPT !.last_poll_attempt = now]
         ELSE [st EXCEPT !.last_poll_attempt = now]

\* last_poll_attempt never updated.
maybe_poll_no_update(now, st, pressed) ==
    LET dt == now - st.last_poll_attempt
    IN IF enough_time_passed(st.limit_fps, dt)
         THEN poll(now,
                   [st EXCEPT !.attempts_since_last_poll = @ + 1,
                              !.last_dt = dt],
                   pressed)
         ELSE st

\* last_dt measured from the front Edge in place of the last attempt.
maybe_poll_since_edge(now, st, pressed) ==
    LET dt == now - st.last_poll_attempt
        de == IF st.poll_queue # <<>> THEN now - Head(st.poll_queue).timestamp ELSE dt
    IN IF enough_time_passed(st.limit_fps, dt)
         THEN [poll(now,
                    [st EXCEPT !.attempts_since_last_poll = @ + 1,
                               !.last_dt = de],
                    pressed)
               EXCEPT !.last_poll_attempt = now]
         ELSE st

maybe_poll(now, st, pressed) ==
    LET dt == now - st.last_poll_attempt
    IN IF enough_time_passed(st.limit_fps, dt)
         THEN [poll(now,
                    [st EXCEPT !.attempts_since_last_poll = @ + 1,
                               !.last_dt = dt],
                    pressed)
               EXCEPT !.last_poll_attempt = now]
         ELSE st

\* ------------------------------------------------------------ rendering
\* dt_before subtracted in place of dt_after.
past_row_wrong_field(p, next_poll) ==
    LET dt             == next_poll.timestamp - p.timestamp
        min_nanos_held == dt - p.dt_before
        epsilon_nanos  == (p.dt_after + p.dt_before) \div 2
    IN [keys           |-> p.keys,
        timestamp      |-> p.timestamp,
        dt             |-> dt,
        dt_before      |-> p.dt_before,
        dt_after       |-> p.dt_after,
        min_nanos_held |-> min_nanos_held,
        epsilon_nanos  |-> epsilon_nanos,
        frames_held    |-> <<min_nanos_held + epsilon_nanos, NANOS_PER_FRAME>>,
        uncertainty    |-> <<epsilon_nanos, NANOS_PER_FRAME>>]

\* next_poll.dt_after subtracted in place of poll.dt_after.
past_row_newer_dt_after(p, next_poll) ==
    LET dt             == next_poll.timestamp - p.timestamp
        min_nanos_held == dt - next_poll.dt_after
        epsilon_nanos  == (p.dt_after + p.dt_before) \div 2
    IN [keys           |-> p.keys,
        timestamp      |-> p.timestamp,
        dt             |-> dt,
        dt_before      |-> p.dt_before,
        dt_after       |-> p.dt_after,
        min_nanos_held |-> min_nanos_held,
        epsilon_nanos  |-> epsilon_nanos,
        frames_held    |-> <<min_nanos_held + epsilon_nanos, NANOS_PER_FRAME>>,
        uncertainty    |-> <<epsilon_nanos, NANOS_PER_FRAME>>]

\* The quotient taken in integers before the conversion to f64.
past_row_whole_frames(p, next_poll) ==
    LET dt             == next_poll.timestamp - p.timestamp
        min_nanos_held == dt - p.dt_after
        epsilon_nanos  == (p.dt_after + p.dt_before) \div 2
    IN [keys           |-> p.keys,
        timestamp      |-> p.timestamp,
        dt             |-> dt,
        dt_before      |-> p.dt_before,
        dt_after       |-> p.dt_after,
        min_nanos_held |-> min_nanos_held,
        epsilon_nanos  |-> epsilon_nanos,
        frames_held    |-> <<(min_nanos_held + epsilon_nanos) \div NANOS_PER_FRAME, 1>>,
        uncertainty    |-> <<epsilon_nanos, NANOS_PER_FRAME>>]

\* One row of draw_past_inputs for the pair (p older, next_poll newer):
\* frames_held and uncertainty are the f64 quotients, kept exact as
\* <<dividend, divisor>>.  The conversion of a u128 to f64 is exact below
\* 2^53 ns, which no time of the model approaches.  A negative
\* min_nanos_held stands for the underflow of the u128 subtraction.
past_row(p, next_poll) ==
    LET dt             == next_poll.timestamp - p.timestamp
        min_nanos_held == dt - p.dt_after
        epsilon_nanos  == (p.dt_after + p.dt_before) \div 2
    IN [keys           |-> p.keys,
        timestamp      |-> p.timestamp,
        dt             |-> dt,
        dt_before      |-> p.dt_before,
        dt_after       |-> p.dt_after,
        min_nanos_held |-> min_nanos_held,
        epsilon_nanos  |-> epsilon_nanos,
        frames_held    |-> <<min_nanos_held + epsilon_nanos, NANOS_PER_FRAME>>,
        uncertainty    |-> <<epsilon_nanos, NANOS_PER_FRAME>>]

\* The loop of draw_past_inputs from queue index i on; y2 is twice y.
RECURSIVE past_rows(_, _, _)
past_rows(polls, i, y2) ==
    IF i > Len(polls) THEN <<>>
    ELSE LET row == past_row(polls[i], polls[i - 1])
         IN IF y2 - 40 <= 80
              THEN <<row>>
              ELSE <<row>> \o past_rows(polls, i + 1, y2 - 40)

draw_past_inputs(polls) ==
    IF Len(polls) <= 1 THEN <<>>
    ELSE past_rows(polls, 2, WindowHeight - 105)

\* ------------------------------------------------------------ state machine
GlobalState ==
    [actions |-> actions, limit_fps |-> limit_fps, last_fps |-> last_fps,
     last_dt |-> last_dt, last_poll_attempt |-> last_poll_attempt,
     attempts_since_last_poll |-> attempts_since_last_poll,
     poll_queue |-> poll_queue, redraw_pending |-> redraw_pending,
     samples |-> samples, recorded |-> recorded,
     redraw_requests |-> redraw_requests, attempt_log |-> attempt_log]

InitWith(limit) ==
    /\ pc = "wait_release"
    /\ keys = <<>>
    /\ fail_keys = <<>>
    /\ actions = <<>>
    /\ limit_fps = limit
    /\ last_fps = 0
    /\ last_dt = 0
    /\ last_poll_attempt = 0
    /\ attempts_since_last_poll = 0
    /\ poll_queue = <<>>
    /\ clock = 0
    /\ redraw_pending = FALSE
    /\ drawn = <<>>
    /\ ticks = 0
    /\ samples = <<>>
    /\ recorded = <<>>
    /\ redraw_requests = 0
    /\ attempt_log = <<>>

\* The program as written: init_and_run sets limit_fps to false.
Init == InitWith(FALSE)

\* The program with the limit_fps switch of init_and_run in either position.
InitModes == \E limit \in BOOLEAN : InitWith(limit)

RunVars == <<actions, limit_fps, last_fps, last_dt, last_poll_attempt,
             attempts_since_last_poll, poll_queue, clock, redraw_pending,
             drawn, ticks, samples, recorded, redraw_requests, attempt_log>>

\* customize, first loop: wait until no key is pressed.
WaitRelease(pressed) ==
    /\ pc = "wait_release"
    /\ pc' = IF get_keys(pressed) = <<>> THEN "customize" ELSE pc
    /\ UNCHANGED <<keys, fail_keys>>
    /\ UNCHANGED RunVars

\* customize, one iteration of `while !done`; when done, main calls
\* init_and_run, which builds GlobalState and enters the event loop.
Customize(pressed) ==
    /\ pc = "customize"
    /\ LET st == customize_scan(get_keys(pressed),
                                [keys |-> keys, fail_keys |-> fail_keys,
                                 done |-> FALSE])
       IN IF st.done
            THEN /\ pc' = "running"
                 /\ actions' = create_actions(st.keys)
                 /\ keys' = <<>>
                 /\ fail_keys' = <<>>
            ELSE /\ pc' = pc
                 /\ actions' = actions
                 /\ keys' = st.keys
                 /\ fail_keys' = st.fail_keys
    /\ UNCHANGED <<limit_fps, last_fps, last_dt, last_poll_attempt,
                   attempts_since_last_poll, poll_queue, clock,
                   redraw_pending, drawn, ticks, samples, recorded,
                   redraw_requests, attempt_log>>

\* Event::MainEventsCleared => maybe_poll(state); the clock has advanced by
\* d since it was last read and the device reports the keys in `pressed`.
MaybePoll(d, pressed) ==
    /\ pc = "running"
    /\ ticks < MaxTicks
    /\ LET now == clock + d
           st  == maybe_poll(now, GlobalState, pressed)
       IN /\ clock' = now
          /\ last_fps' = st.last_fps
          /\ last_dt' = st.last_dt
          /\ last_poll_attempt' = st.last_poll_attempt
          /\ attempts_since_last_poll' = st.attempts_since_last_poll
          /\ poll_queue' = st.poll_queue
          /\ redraw_pending' = st.redraw_pending
          /\ samples' = st.samples
          /\ recorded' = st.recorded
          /\ redraw_requests' = st.redraw_requests
          /\ attempt_log' = st.attempt_log
    /\ ticks' = ticks + 1
    /\ UNCHANGED <<pc, keys, fail_keys, actions, limit_fps, drawn>>

\* Event::RedrawRequested => render(state).
Render ==
    /\ pc = "running"
    /\ redraw_pending
    /\ redraw_pending' = FALSE
    /\ drawn' = draw_past_inputs(poll_queue)
    /\ UNCHANGED <<pc, keys, fail_keys, actions, limit_fps, last_fps, last_dt,
                   last_poll_attempt, attempts_since_last_poll, poll_queue,
                   clock, ticks, samples, recorded, redraw_requests,
                   attempt_log>>

Next ==
    \/ \E pressed \in SUBSET Keycodes : WaitRelease(pressed)
    \/ \E pressed \in SUBSET Keycodes : Customize(pressed)
    \/ \E d \in Steps, pressed \in RunPolls : MaybePoll(d, pressed)
    \/ Render

Spec == Init /\ [][Next]_vars

SpecModes == InitModes /\ [][Next]_vars

\* ------------------------------------------------ the gate over time
\* The program with limit_fps set, run for as many ticks as fit before
\* MaxClock; ticks stops counting at MaxTicks.  The event loop runs with
\* ControlFlow::Poll, so MainEventsCleared keeps coming, and the clock
\* advances between two of them again and again: ticks that find the clock
\* advanced are weakly fair.
InitLive == InitWith(TRUE)

LiveTick(d, pressed) ==
    /\ pc = "running"
    /\ clock + d <= MaxClock
    /\ LET now == clock + d
           st  == maybe_poll(now, GlobalState, pressed)
       IN /\ clock' = now
          /\ last_fps' = st.last_fps
          /\ last_dt' = st.last_dt
          /\ last_poll_attempt' = st.last_poll_attempt
          /\ attempts_since_last_poll' = st.attempts_since_last_poll
          /\ poll_queue' = st.poll_queue
          /\ redraw_pending' = st.redraw_pending
          /\ samples' = st.samples
          /\ recorded' = st.recorded
          /\ redraw_requests' = st.redraw_requests
          /\ attempt_log' = st.attempt_log
    /\ ticks' = IF ticks < MaxTicks THEN ticks + 1 ELSE ticks
    /\ UNCHANGED <<pc, keys, fail_keys, actions, limit_fps, drawn>>

AdvancingTick ==
    \E d \in Steps \ {0}, pressed \in RunPolls : LiveTick(d, pressed)

NextLive ==
    \/ \E pressed \in SUBSET Keycodes : WaitRelease(pressed)
    \/ \E pressed \in SUBSET Keycodes : Customize(pressed)
    \/ \E d \in Steps, pressed \in RunPolls : LiveTick(d, pressed)
    \/ Render

SpecLive == InitLive /\ [][NextLive]_vars /\ WF_vars(AdvancingTick)

\* ------------------------------------------------ the estimate on its own
\* draw_past_inputs applied to pairs of Edges drawn from Durations: one
\* older Edge (dt_before, dt_after) shown against two newer Edges, raw1 and
\* raw2 nanoseconds after it.
Durations == {0, 1, 999999, 1999998, 10000000, 20000000, 30000000, 40000000}

EdgeAt(t, dtb, dta) ==
    [timestamp |-> t, keys |-> <<TRUE>>, dt_before |-> dtb, dt_after |-> dta]

InitEstimate ==
    /\ pc = "estimate"
    /\ keys = <<>>
    /\ fail_keys = <<>>
    /\ actions = create_actions(<<"A">>)
    /\ limit_fps = FALSE
    /\ last_fps = 0
    /\ last_dt = 0
    /\ last_poll_attempt = 0
    /\ attempts_since_last_poll = 0
    /\ poll_queue = <<>>
    /\ clock = 0
    /\ redraw_pending = FALSE
    /\ drawn = <<>>
    /\ ticks = 0
    /\ samples = <<>>
    /\ recorded = <<>>
    /\ redraw_requests = 0
    /\ attempt_log = <<>>

Estimate(dtb, dta, raw1, raw2) ==
    /\ pc = "estimate"
    /\ dta <= raw1
    /\ raw1 < raw2
    /\ drawn' = draw_past_inputs(<<EdgeAt(raw1, dta, U128_MAX), EdgeAt(0, dtb, dta)>>)
                 \o draw_past_inputs(<<EdgeAt(raw2, dta, U128_MAX), EdgeAt(0, dtb, dta)>>)
    /\ UNCHANGED <<pc, keys, fail_keys, actions, limit_fps, last_fps, last_dt,
                   last_poll_attempt, attempts_since_last_poll, poll_queue,
                   clock, redraw_pending, ticks, samples, recorded,
                   redraw_requests, attempt_log>>

NextEstimate ==
    \E dtb \in Durations, dta \in Durations, raw1 \in Durations :
        \E raw2 \in Durations \cup {raw1 + 1} : Estimate(dtb, dta, raw1, raw2)

SpecEstimate == InitEstimate /\ [][NextEstimate]_vars

\* ------------------------------------------------------------ properties
Min(a, b) == IF a <= b THEN a ELSE b

\* Positions of `samples` whose key vector differs from the one before.
Changes == {i \in 2..Len(samples) : samples[i] # samples[i - 1]}

\* C1. Edge-triggering: the number of Edges handed to record_poll so far
\* (evicted ones included) is 0 before the first sample and afterwards 1 plus
\* the number of samples that differ from the sample just before them.
C1_EdgeTriggering ==
    Len(recorded) = IF samples = <<>> THEN 0 ELSE 1 + Cardinality(Changes)

\* Four samples of which exactly one differs from its predecessor.
C1_Witness ==
    /\ Len(samples) = 4
    /\ Cardinality(Changes) = 1
    /\ Len(recorded) = 2

\* C2. Capacity bound: the queue never holds more than MAX_QUEUE_SIZE Edges,
\* it holds the most recent min(MAX_QUEUE_SIZE, k) of the k Edges recorded,
\* newest first, and no evicted Edge is newer than an Edge still held.
C2_CapacityBound ==
    LET k == Len(recorded)
        n == Len(poll_queue)
    IN /\ n <= MAX_QUEUE_SIZE
       /\ n = Min(MAX_QUEUE_SIZE, k)
       /\ \A i \in 1..n :
             /\ poll_queue[i].timestamp = recorded[k - i + 1].timestamp
             /\ poll_queue[i].keys = recorded[k - i + 1].keys
             /\ poll_queue[i].dt_before = recorded[k - i + 1].dt_before
       /\ \A j \in 1..(k - n) : \A i \in 1..n :
             recorded[j].timestamp <= poll_queue[i].timestamp

\* More Edges recorded than the queue holds: an eviction has happened.
C2_Witness ==
    /\ Len(recorded) > MAX_QUEUE_SIZE
    /\ Len(poll_queue) = MAX_QUEUE_SIZE

C4_SharedBoundary ==
    \A i \in 1..(Len(poll_queue) - 1) :
        poll_queue[i + 1].dt_after = poll_queue[i].dt_before

\* Three Edges whose two boundaries are different intervals.
C4_Witness ==
    /\ Len(poll_queue) = 3
    /\ poll_queue[1].dt_before # poll_queue[2].dt_before
    /\ poll_queue[2].dt_before > 0

\* C5. Redraw notification: every step requests exactly as many redraws as
\* it records Edges (one or none), so the two counts stay equal.
C5_RedrawPerEdge ==
    /\ [](redraw_requests = Len(recorded))
    /\ [][/\ redraw_requests' - redraw_requests = Len(recorded') - Len(recorded)
           /\ redraw_requests' - redraw_requests \in {0, 1}]_vars

\* Two redraws requested and one attempt that requested none.
C5_Witness ==
    /\ redraw_requests = 2
    /\ Len(samples) = 3
    /\ Len(recorded) = 2

\* C6. Rate gate: a tick queries the device only if limit_fps is clear or
\* elapsed * MAX_POLLS_PER_FRAME >= NANOS_PER_FRAME; a tick with the gate
\* closed changes none of attempts_since_last_poll, last_dt,
\* last_poll_attempt, last_fps, poll_queue; with limit_fps clear every tick
\* queries the device.
C6_RateGate ==
    [][ticks' = ticks + 1 =>
         LET elapsed == clock' - last_poll_attempt
             queried == Len(samples') = Len(samples) + 1
             closed  == limit_fps /\ elapsed * MAX_POLLS_PER_FRAME < NANOS_PER_FRAME
         IN /\ queried \/ samples' = samples
            /\ queried => ~closed
            /\ closed => UNCHANGED <<attempts_since_last_poll, last_dt,
                                      last_poll_attempt, last_fps, poll_queue>>
            /\ ~limit_fps => queried]_vars

\* limit_fps set, an attempt made after ticks that found the gate closed.
C6_Witness ==
    /\ limit_fps
    /\ ticks = 4
    /\ Len(samples) = 2
    /\ last_dt = 2 * 999999

\* C8 as claimed: with no tracked channel the run does not start: no tick is
\* processed and no Edge is recorded.
C8_NoRunWithoutChannels ==
    (pc = "running" /\ actions = <<>>) => (ticks = 0 /\ recorded = <<>>)

\* C9. Held-frame estimate: once the queue has been rendered, row i of
\* draw_past_inputs is for the pair (older = poll_queue[i + 1], newer =
\* poll_queue[i]); with raw_dt the difference of their timestamps,
\* min_nanos_held + older.dt_after = raw_dt, epsilon is the sum of
\* older.dt_after and older.dt_before halved and rounded down, the estimate
\* is (min_nanos_held + epsilon) over NANOS_PER_FRAME and the uncertainty is
\* epsilon over NANOS_PER_FRAME; the Edge (t = 10 ms, dt_before = 10 ms,
\* dt_after = 20 ms) followed by an Edge at 60 ms gives 30 ms, 15 ms and
\* 45 ms / 34 ms.
C9_HeldFrameEstimate ==
    (pc = "running" /\ ~redraw_pending) =>
        /\ Len(drawn) <= Len(poll_queue)
        /\ \A i \in 1..Len(drawn) :
              LET older  == poll_queue[i + 1]
                  newer  == poll_queue[i]
                  raw_dt == newer.timestamp - older.timestamp
                  total  == older.dt_after + older.dt_before
                  row    == drawn[i]
              IN /\ row.min_nanos_held + older.dt_after = raw_dt
                 /\ 2 * row.epsilon_nanos <= total
                 /\ total < 2 * row.epsilon_nanos + 2
                 /\ row.frames_held =
                        <<row.min_nanos_held + row.epsilon_nanos, NANOS_PER_FRAME>>
                 /\ row.uncertainty = <<row.epsilon_nanos, NANOS_PER_FRAME>>
                 /\ (/\ older.timestamp = 10000000
                     /\ older.dt_before = 10000000
                     /\ older.dt_after = 20000000
                     /\ newer.timestamp = 60000000)
                    => /\ row.min_nanos_held = 30000000
                       /\ row.epsilon_nanos = 15000000
                       /\ row.frames_held = <<45000000, 34000000>>
                       /\ row.uncertainty = <<15000000, 34000000>>

\* The pair of the example has been rendered.
C9_Witness ==
    /\ pc = "running"
    /\ ~redraw_pending
    /\ Len(drawn) >= 1
    /\ poll_queue[2].timestamp = 10000000
    /\ poll_queue[2].dt_before = 10000000
    /\ poll_queue[2].dt_after = 20000000
    /\ poll_queue[1].timestamp = 60000000
    /\ drawn[1].frames_held = <<45000000, 34000000>>

\* A pair rendered whose two intervals sum to an odd number of nanoseconds.
C9_WitnessOdd ==
    /\ pc = "running"
    /\ ~redraw_pending
    /\ Len(drawn) >= 1
    /\ (poll_queue[2].dt_after + poll_queue[2].dt_before) % 2 = 1

\* Two f64 quotients with one positive divisor compare as their dividends.
FracLess(a, b) == a[2] = b[2] /\ a[2] > 0 /\ a[1] < b[1]

NearestInteger(f, a, delta) ==
    LET q == NANOS_PER_SEC \div delta
        r == NANOS_PER_SEC % delta
        k == f - a * q
    IN /\ 0 <= k
       /\ k <= a
       /\ 2 * (k * delta - a * r) <= delta
       /\ 2 * (a * r - k * delta) <= delta

\* Index in attempt_log of the attempt that recorded Edge number e.
AttemptOf(log, e) == CHOOSE j \in 1..Len(log) : log[j].edge = e

\* C11 as claimed. fps metric: the step that records the first Edge leaves
\* last_fps = 0; a step that records a later Edge leaves last_fps >= 0 and
\* equal to the nearest integer to (attempts since the previous Edge, this one
\* included) / (seconds between the previous front Edge's timestamp and the
\* new Edge's timestamp).
C11_FpsMetric ==
    [][Len(recorded') = Len(recorded) + 1 =>
         IF recorded = <<>>
           THEN last_fps' = 0
           ELSE LET a     == Len(attempt_log') - AttemptOf(attempt_log, Len(recorded))
                    delta == poll_queue'[1].timestamp - poll_queue[1].timestamp
                IN /\ last_fps' >= 0
                   /\ delta > 0
                   /\ NearestInteger(last_fps', a, delta)]_vars

\* What holds of C11: as claimed whenever the new Edge is later than the
\* previous front Edge; when the two carry one timestamp the quotient is by
\* 0.0 seconds and last_fps is +infinity.
C11_FpsMetricOrInfinite ==
    [][Len(recorded') = Len(recorded) + 1 =>
         IF recorded = <<>>
           THEN last_fps' = 0
           ELSE LET a     == Len(attempt_log') - AttemptOf(attempt_log, Len(recorded))
                    delta == poll_queue'[1].timestamp - poll_queue[1].timestamp
                IN IF delta = 0
                     THEN last_fps' = F64_INFINITY
                     ELSE last_fps' >= 0 /\ NearestInteger(last_fps', a, delta)]_vars

\* An Edge recorded by the third attempt after the previous Edge, 60 ms
\* later: 3 / 0.06 s = 50.
C11_Reached ==
    /\ Len(recorded) = 2
    /\ Len(attempt_log) = 4
    /\ poll_queue[1].timestamp - poll_queue[2].timestamp = 60000000
    /\ last_fps = 50

\* The instant of the attempt before attempt j; before the first attempt it
\* is the instant init_and_run stored in last_poll_attempt, the origin.
PreviousAttempt(j) == IF j = 1 THEN 0 ELSE attempt_log[j - 1].now

\* C12. dt_before of every recorded Edge is the time from the attempt just
\* before the one that recorded it (recording or not) to that attempt, and
\* an Edge's dt_after, once it has a newer neighbour, is that neighbour's
\* attempt interval; attempts at 0, 10, 40, 60 ms sampling F, T, T, F leave
\* Edges with dt_before 0, 10, 20 ms and dt_after 10, 20 ms on the first two.
C12_DtBeforeFromLastAttempt ==
    /\ \A j \in 1..Len(attempt_log) :
          LET e == attempt_log[j].edge
          IN e > 0 =>
               /\ recorded[e].timestamp = attempt_log[j].now
               /\ recorded[e].dt_before = attempt_log[j].now - PreviousAttempt(j)
    /\ \A i \in 2..Len(poll_queue) :
          LET j == AttemptOf(attempt_log, Len(recorded) - i + 2)
          IN poll_queue[i].dt_after = attempt_log[j].now - PreviousAttempt(j)
    /\ (/\ Len(attempt_log) = 4
        /\ [j \in 1..4 |-> attempt_log[j].now] = <<0, 10000000, 40000000, 60000000>>
        /\ samples = <<(<<FALSE>>), (<<TRUE>>), (<<TRUE>>), (<<FALSE>>)>>)
       => /\ Len(poll_queue) = 3
          /\ [i \in 1..3 |-> poll_queue[i].dt_before] = <<20000000, 10000000, 0>>
          /\ poll_queue[3].dt_after = 10000000
          /\ poll_queue[2].dt_after = 20000000

\* The attempts of the example have been made.
C12_Witness ==
    /\ Len(attempt_log) = 4
    /\ [j \in 1..4 |-> attempt_log[j].now] = <<0, 10000000, 40000000, 60000000>>
    /\ samples = <<(<<FALSE>>), (<<TRUE>>), (<<TRUE>>), (<<FALSE>>)>>
    /\ poll_queue[1].dt_before = 20000000

\* C13. No partially constructed Edge: every Edge of the queue has its
\* dt_before set (not u128::MAX), the front Edge has dt_after = u128::MAX and
\* every other Edge has its dt_after back-filled.
C13_NoPartialEdge ==
    \A i \in 1..Len(poll_queue) :
        /\ poll_queue[i].dt_before # U128_MAX
        /\ (i = 1) <=> (poll_queue[i].dt_after = U128_MAX)

\* A full queue: one front Edge and two back-filled ones.
C13_Witness ==
    /\ Len(poll_queue) = 3
    /\ poll_queue[1].dt_after = U128_MAX
    /\ poll_queue[2].dt_after < U128_MAX
    /\ poll_queue[3].dt_after < U128_MAX

\* C14. Idempotence of an unchanged sample: an attempt whose key vector
\* equals the front Edge's leaves poll_queue and last_fps as they were,
\* requests no redraw, adds 1 to attempts_since_last_poll and sets last_dt
\* and last_poll_attempt from the instant of the attempt.
C14_UnchangedSample ==
    [][(/\ Len(samples') = Len(samples) + 1
        /\ poll_queue # <<>>
        /\ samples'[Len(samples')] = poll_queue[1].keys)
       => /\ poll_queue' = poll_queue
          /\ last_fps' = last_fps
          /\ recorded' = recorded
          /\ redraw_requests' = redraw_requests
          /\ attempts_since_last_poll' = attempts_since_last_poll + 1
          /\ last_dt' = clock' - last_poll_attempt
          /\ last_poll_attempt' = clock'
          /\ UNCHANGED <<actions, limit_fps, drawn>>]_vars

\* Two unchanged samples in a row behind a queue of two Edges.
C14_Witness ==
    /\ Len(poll_queue) = 2
    /\ Len(samples) = 4
    /\ attempts_since_last_poll = 2
    /\ samples[4] = poll_queue[1].keys
    /\ samples[4] # poll_queue[2].keys

\* Attempts logged after the latest one that recorded an Edge.
AttemptsSinceEdge ==
    {j \in 1..Len(attempt_log) :
        \A k \in j..Len(attempt_log) : attempt_log[k].edge = 0}

\* C15. attempts_since_last_poll is 0 right after record_poll and otherwise
\* the number of attempts made since the latest Edge was recorded; only an
\* attempt changes it.
C15_AttemptsCounter ==
    /\ [](attempts_since_last_poll = Cardinality(AttemptsSinceEdge))
    /\ [][attempts_since_last_poll' # attempts_since_last_poll
            => Len(attempt_log') = Len(attempt_log) + 1]_vars
    /\ [][Len(recorded') = Len(recorded) + 1 => attempts_since_last_poll' = 0]_vars

\* The counter back at 0 after having counted two unchanged attempts.
C15_Witness ==
    /\ Len(attempt_log) = 4
    /\ attempt_log[4].edge = 2
    /\ attempts_since_last_poll = 0

\* C16. The newest Edge's hold is never reported: draw_past_inputs writes no
\* row for a queue of at most one Edge and at most Len - 1 rows otherwise,
\* row i being for poll_queue[i + 1] when the queue has been rendered, and
\* in no row is u128::MAX the dt_after subtracted from dt or a term of
\* epsilon.
C16_NewestNotReported ==
    /\ Len(drawn) <= IF Len(poll_queue) <= 1 THEN 0 ELSE Len(poll_queue) - 1
    /\ \A i \in 1..Len(drawn) :
          /\ drawn[i].dt_after # U128_MAX
          /\ drawn[i].dt - drawn[i].min_nanos_held # U128_MAX
          /\ drawn[i].epsilon_nanos < U128_MAX \div 2
          /\ (pc = "running" /\ ~redraw_pending) =>
                /\ drawn[i].timestamp = poll_queue[i + 1].timestamp
                /\ drawn[i].dt_after = poll_queue[i + 1].dt_after

\* A full queue rendered: two rows, none for the front Edge.
C16_Witness ==
    /\ pc = "running"
    /\ ~redraw_pending
    /\ Len(poll_queue) = 3
    /\ Len(drawn) = 2
    /\ poll_queue[1].dt_after = U128_MAX

\* C17. The subtraction raw_dt - poll.dt_after never underflows: for adjacent
\* Edges A (older) and B (newer), A.dt_after <= B.timestamp - A.timestamp;
\* the front Edge is never later than last_poll_attempt; and every row
\* written has min_nanos_held >= 0.
C17_NoUnderflow ==
    /\ \A i \in 1..(Len(poll_queue) - 1) :
          poll_queue[i + 1].dt_after
              <= poll_queue[i].timestamp - poll_queue[i + 1].timestamp
    /\ poll_queue # <<>> => poll_queue[1].timestamp <= last_poll_attempt
    /\ \A i \in 1..Len(drawn) : drawn[i].min_nanos_held >= 0

\* An Edge held over an unchanged attempt, so that its dt_after is less
\* than the time to the next Edge, rendered.
C17_Witness ==
    /\ Len(poll_queue) >= 2
    /\ poll_queue[2].dt_after > 0
    /\ poll_queue[2].dt_after < poll_queue[1].timestamp - poll_queue[2].timestamp
    /\ Len(drawn) >= 1
    /\ drawn[1].min_nanos_held > 0
    /\ ~redraw_pending

\* C18. Adjacent Edges of the queue have different key vectors, and every
\* key vector has one entry per tracked channel.
C18_AdjacentDiffer ==
    /\ \A i \in 1..(Len(poll_queue) - 1) :
          poll_queue[i].keys # poll_queue[i + 1].keys
    /\ \A i \in 1..Len(poll_queue) :
          /\ Len(poll_queue[i].keys) = Len(actions)
          /\ DOMAIN poll_queue[i].keys = 1..Len(actions)

\* A full queue over one tracked channel, after an unchanged sample.
C18_Witness ==
    /\ Len(actions) = 1
    /\ Len(poll_queue) = 3
    /\ Len(samples) = 4

\* C19. With limit_fps set the gate does not stay closed: a step that makes
\* no attempt leaves last_poll_attempt alone, a tick that finds
\* elapsed * MAX_POLLS_PER_FRAME >= NANOS_PER_FRAME makes an attempt, every
\* attempt made has last_dt * MAX_POLLS_PER_FRAME >= NANOS_PER_FRAME, and
\* from any state of the running loop that leaves the clock room for two
\* more advances (1999998 ns) a further attempt is eventually made.
C19_GateOpens ==
    /\ [](limit_fps /\ attempt_log # <<>>
            => last_dt * MAX_POLLS_PER_FRAME >= NANOS_PER_FRAME)
    /\ [][Len(attempt_log') = Len(attempt_log)
            => last_poll_attempt' = last_poll_attempt]_vars
    /\ [][(clock' # clock
            /\ (clock' - last_poll_attempt) * MAX_POLLS_PER_FRAME >= NANOS_PER_FRAME)
            => Len(attempt_log') = Len(attempt_log) + 1]_vars
    /\ \A n \in 0..(MaxClock \div 999999) :
          (pc = "running" /\ limit_fps /\ Len(attempt_log) = n
             /\ clock + 1999998 <= MaxClock)
          ~> (Len(attempt_log) > n)

\* An attempt let through 1999998 ns after the one before, a closed tick
\* in between.
C19_Witness ==
    /\ limit_fps
    /\ Len(attempt_log) >= 2
    /\ last_dt = 1999998
    /\ last_poll_attempt = clock
====
